---- MODULE Spec2Model ----
(***************************************************************************)
(* A model of the quantum-crypto orchestrator (QuantumCrypto), its         *)
(* SecurityMonitor and its EntropyPool, as a set of caller threads that    *)
(* invoke the public operations of the one process-wide instance.          *)
(*                                                                         *)
(* One action is one step of one thread between two points where another   *)
(* thread can observe or block it: taking or releasing one of the three    *)
(* mutexes, entering or leaving a call into the algorithm provider         *)
(* (liboqs), returning to the caller.                                      *)
(*                                                                         *)
(* The providers are external: the outcome of each provider call (status,  *)
(* generated key, reported signature length, allocator refusal, RAND       *)
(* failure) is an input drawn with \E at the step that makes the call.     *)
(* Keys, messages and signatures are abstract values: a key pair is a      *)
(* number k (public and private half share it), a signature is the record  *)
(* of the message and key it was made for and of its length in bytes.      *)
(***************************************************************************)
EXTENDS Integers, FiniteSets, Sequences, TLC

-----------------------------------------------------------------------------
(* Bounds of the model *)

NumThreads == 2
MaxKey == 2
MaxMsg == 2
MaxDraws == 9
length_signature == 2
MaxPoolDraws == 4
INT_BITS == 10
SIZE_BITS == 16
MaxBufs == 2
MaxRegions == 2
MaxLen == 1
MaxB64Len == 3

(* Program constants *)

MIN_ENTROPY_LEVEL == 256
ENTROPY_DRAW == 32

Threads == 1..NumThreads
NoThread == 0

VARIABLES
    harness,                  \* which callers drive the instance (fixed by Init)
    passedChecks,             \* generateDilithiumKeyPair calls past lines 68-69
    mutex,                    \* QuantumCrypto::Implementation::mutex, its holder
    monMutex,                 \* SecurityMonitor::Implementation::mutex, its holder
    entMutex,                 \* EntropyPool::Implementation::mutex, its holder
    securityLevelMaintained,  \* SecurityMonitor flag
    sideChannelDetected,      \* SecurityMonitor flag
    entropyLevel,             \* EntropyPool counter
    sigUsers,                 \* threads inside a call on the dilithium context
    kemUsers,                 \* threads inside a call on the kyber context
    th,                       \* per thread: position, operation, arguments, locals
    pool,                     \* EntropyPool driven directly: provider health, draws returned
    single,                   \* QuantumCrypto::getInstance: the function-local static
    mem,                      \* SecureBuffer objects and the secure heap
    b64                       \* Buffer::toBase64 / Buffer::fromBase64 on one input

(* The state that only the harnesses driving one component directly use;   *)
(* the operations of the orchestrator leave it alone.                      *)
standalone == <<pool, single, mem, b64>>

vars == <<harness, passedChecks, mutex, monMutex, entMutex, securityLevelMaintained,
          sideChannelDetected, entropyLevel, sigUsers, kemUsers, th, standalone>>

-----------------------------------------------------------------------------
(* Values *)

LockingOps == {"generateDilithiumKeyPair", "generateKyberKeyPair", "sign",
               "verify", "kyberEncapsulate", "kyberDecapsulate"}
PublicOps == LockingOps \cup {"generateSecureRandom", "healthCheck"}
SigOps == {"generateDilithiumKeyPair", "sign", "verify"}

(* The callers' inputs.  The single caller of the sequential harness ranges *)
(* over every input; the concurrent callers all use one message, one key    *)
(* and one well-formed signature, which is all their interleavings need.    *)
KeyIds == IF harness = "concurrent" THEN {1} ELSE 1..MaxKey
Messages == IF harness = "concurrent" THEN {1} ELSE 1..MaxMsg
Callers == IF harness = "concurrent" THEN Threads ELSE {1}
RandomLengths ==
    IF harness = "concurrent" THEN {ENTROPY_DRAW}
    ELSE {0, 1, ENTROPY_DRAW, 2 ^ INT_BITS + ENTROPY_DRAW}

NoSig == [msg |-> 0, key |-> 0, len |-> 0]
(* A signature buffer a caller can hand to verify: made for message msg by  *)
(* key key (key 0: by no key of the provider), of any non-zero length up to *)
(* one byte more than the context's signature length.                       *)
SignatureInputs ==
    IF harness = "concurrent"
    THEN {[msg |-> 1, key |-> 1, len |-> length_signature]}
    ELSE [msg : Messages, key : {0} \cup KeyIds, len : 1..(length_signature + 1)]

NoArg == [msg |-> 0, sig |-> NoSig, key |-> 0, ct |-> 0, len |-> 0]

ArgsOf(o) ==
    CASE o = "sign" -> {[NoArg EXCEPT !.msg = m, !.key = k] :
                            m \in Messages, k \in KeyIds}
      [] o = "verify" -> {[NoArg EXCEPT !.msg = m, !.sig = s, !.key = k] :
                            m \in Messages, s \in SignatureInputs, k \in KeyIds}
      [] o = "kyberEncapsulate" -> {[NoArg EXCEPT !.key = k] : k \in KeyIds}
      [] o = "kyberDecapsulate" -> {[NoArg EXCEPT !.ct = c, !.key = k] :
                            c \in KeyIds, k \in KeyIds}
      [] o = "generateSecureRandom" -> {[NoArg EXCEPT !.len = n] :
                            n \in RandomLengths}
      [] OTHER -> {NoArg}

(* Exceptions: the class thrown and its what() text. *)
NoExc == [type |-> "none", what |-> ""]
QuantumError(m) == [type |-> "QuantumError", what |-> m]
MemoryError(m) == [type |-> "MemoryError", what |-> m]
RuntimeError(m) == [type |-> "std::runtime_error", what |-> m]

(* Outcome of an operation body: what it is about to hand to its caller. *)
NoRes == [kind |-> "none", key |-> 0, msg |-> 0, sig |-> NoSig, ct |-> 0,
          ok |-> FALSE, exc |-> NoExc]
ResKeyPair(k) == [NoRes EXCEPT !.kind = "keypair", !.key = k]
ResSignature(s) == [NoRes EXCEPT !.kind = "signature", !.sig = s]
ResBool(b) == [NoRes EXCEPT !.kind = "bool", !.ok = b]
ResKyber(c, s) == [NoRes EXCEPT !.kind = "kyber", !.ct = c, !.key = s]
ResSecret(s) == [NoRes EXCEPT !.kind = "secret", !.key = s]
ResBuffer(m) == [NoRes EXCEPT !.kind = "buffer", !.msg = m]
ResError(e) == [NoRes EXCEPT !.kind = "error", !.exc = e]

NoRecord == [operation |-> "", error |-> ""]

(* What became of a record in the failure sink: whether std::cerr took it, *)
(* and whether security_errors.log was appended to, could not be opened,   *)
(* or was opened and could not be written.                                 *)
NoSink == [cerr |-> TRUE, file |-> "none"]
SinkOutcomes ==
    IF harness = "concurrent"
    THEN {[cerr |-> TRUE, file |-> "appended"]}
    ELSE [cerr : BOOLEAN, file : {"appended", "unopened", "unwritten"}]

(* A thread: its position pc, the operation op whose body it runs, hc the   *)
(* stage of the healthCheck it runs that operation for ("none": called by  *)
(* the caller directly), the arguments, the pending outcome res, the       *)
(* locals key and msg of healthCheck, and what the current call has done   *)
(* so far: the record it handed to logFailure, whether it entered the      *)
(* algorithm provider (called), whether it asked RAND_bytes for bytes      *)
(* (drew), the status its provider call reported, and how many bytes of    *)
(* its result RAND_bytes wrote (filled).                                   *)
IdleThread ==
    [pc |-> "idle", op |-> "none", hc |-> "none", arg |-> NoArg, res |-> NoRes,
     key |-> 0, msg |-> 0, logged |-> NoRecord, called |-> FALSE,
     drew |-> FALSE, status |-> "none", sink |-> NoSink, filled |-> 0]

Upd(t, r) == th' = [th EXCEPT ![t] = r]

-----------------------------------------------------------------------------
(* SecurityMonitor *)

MonitorInitializeSuspect ==
    /\ securityLevelMaintained = TRUE
    /\ sideChannelDetected = TRUE

(* SecurityMonitor::initialize, run by the QuantumCrypto constructor. *)
MonitorInitialize ==
    /\ securityLevelMaintained = TRUE
    /\ sideChannelDetected = FALSE

(* The operation name each orchestrator operation passes to logFailure. *)
LogName(o) ==
    CASE o = "generateDilithiumKeyPair" -> "Dilithium Key Generation"
      [] o = "generateKyberKeyPair" -> "Kyber Key Generation"
      [] o = "sign" -> "Signing"
      [] o = "verify" -> "Verify"
      [] o = "kyberEncapsulate" -> "Kyber Encapsulation"
      [] o = "kyberDecapsulate" -> "Kyber Decapsulation"
      [] OTHER -> ""

-----------------------------------------------------------------------------
(* Initial state: the instance after QuantumCrypto::QuantumCrypto(). *)

(* EntropyPool::EntropyPool(): constructed only if RAND_status() reports a *)
(* healthy source; no draw has returned yet.                               *)
PoolInit == pool = [healthy |-> TRUE, returned |-> 0, calls |-> 0]

(* No caller has asked for the instance through getInstance yet. *)
NoParams == [entropyQuality |-> 0, securityLevel |-> 0, sidechannelProtection |-> FALSE]
NoCall == [pc |-> "idle", params |-> NoParams, ret |-> "none"]

SingleInit ==
    single = [guard |-> "uninit", built |-> 0, config |-> NoParams,
              first |-> NoParams, call |-> [t \in Threads |-> NoCall]]

(* SecureBuffer objects live in the slots, regions of the secure heap are   *)
(* numbered from 1; data_ = 0 is nullptr.  last is the operation that was  *)
(* applied last: its operands and what they were before it.                *)
Slots == 1..MaxBufs
Regions == 1..MaxRegions
ByteValues == {0, 255}
NoBuf == [state |-> "none", size_ |-> 0, data_ |-> 0]
UnusedRegion == [state |-> "unused", bytes |-> <<>>, frees |-> 0]
NoOp == [op |-> "none", dst |-> 0, src |-> 0, n |-> 0, exc |-> NoExc,
         was |-> NoBuf, bytes |-> <<>>, old |-> <<>>]

(* No SecureBuffer exists, nothing is allocated on the secure heap. *)
MemIdle ==
    [elem |-> 1, bufs |-> [b \in Slots |-> NoBuf],
     heap |-> [r \in Regions |-> UnusedRegion], last |-> NoOp]

MemInit == mem = MemIdle

(* No Buffer is being transcoded. *)
B64Idle == [stage |-> "none", input |-> <<>>, text |-> <<>>, output |-> <<>>,
            exc |-> NoExc]

B64Init == b64 = B64Idle

InitStandalone == PoolInit /\ SingleInit /\ MemInit /\ B64Init

InitOrchestrator ==
    /\ mutex = NoThread
    /\ monMutex = NoThread
    /\ entMutex = NoThread
    /\ MonitorInitialize
    /\ entropyLevel = 0
    /\ passedChecks = 0
    /\ sigUsers = {}
    /\ kemUsers = {}
    /\ th = [t \in Threads |-> IdleThread]

InitInstance == InitStandalone /\ InitOrchestrator

Init == harness = "concurrent" /\ InitInstance

InitSequential == harness = "sequential" /\ InitInstance

-----------------------------------------------------------------------------
(* Entry of a public operation *)

(* The calls that may still draw from the EntropyPool: the bound MaxDraws   *)
(* on the calls that get past the two checks, and with it on the counter,  *)
(* is kept by not starting a call that could exceed it.                    *)
Drawers ==
    {u \in Threads : /\ th[u].pc # "idle"
                     /\ \/ th[u].op \in {"generateDilithiumKeyPair", "healthCheck"}
                        \/ th[u].hc # "none"}

WithinDrawBound(o) ==
    o \in {"generateDilithiumKeyPair", "healthCheck"} =>
        passedChecks + Cardinality(Drawers) + 1 <= MaxDraws

EntryUnlockedSign(o) ==
    IF o = "sign" THEN "validate"
    ELSE IF o \in LockingOps THEN "lock"
    ELSE IF o = "generateSecureRandom" THEN "random"
    ELSE "hc_quality"

(* Where the body of operation o starts: the six locking operations start  *)
(* with the lock_guard on the orchestrator mutex, generateSecureRandom and *)
(* healthCheck take no lock.                                               *)
Entry(o) ==
    IF o \in LockingOps THEN "lock"
    ELSE IF o = "generateSecureRandom" THEN "random"
    ELSE "hc_quality"

Call(t) ==
    /\ t \in Callers
    /\ th[t].pc = "idle"
    /\ \E o \in PublicOps :
         /\ WithinDrawBound(o)
         /\ \E a \in ArgsOf(o) :
              Upd(t, [IdleThread EXCEPT !.pc = Entry(o), !.op = o, !.arg = a])
    /\ UNCHANGED <<standalone, harness, passedChecks, mutex, monMutex, entMutex, securityLevelMaintained,
                   sideChannelDetected, entropyLevel, sigUsers, kemUsers>>

-----------------------------------------------------------------------------
(* The common template of the six locking operations *)

CanLockAlways(t) == TRUE

(* std::lock_guard<std::mutex> lock(pImpl->mutex): blocks while held. *)
CanLock(t) == mutex = NoThread

Lock(t) ==
    /\ th[t].pc = "lock"
    /\ CanLock(t)
    /\ mutex' = t
    /\ Upd(t, [th[t] EXCEPT !.pc = "validate"])
    /\ UNCHANGED <<standalone, harness, passedChecks, monMutex, entMutex, securityLevelMaintained,
                   sideChannelDetected, entropyLevel, sigUsers, kemUsers>>

ThrowUnlogged(s, e) == [s EXCEPT !.pc = "unlock", !.res = ResError(e)]

(* An exception thrown inside the try block lands in the catch clause,     *)
(* which calls logFailure(name, e.what()) and rethrows.                    *)
Throw(s, e) == [s EXCEPT !.pc = "log", !.res = ResError(e)]

(* validateSecurityLevel: SecurityMonitor::isSecurityLevelMaintained takes *)
(* the monitor's mutex, reads the flag and releases it.                    *)
Validate(t) ==
    /\ th[t].pc = "validate"
    /\ monMutex = NoThread
    /\ monMutex' = t
    /\ Upd(t, [th[t] EXCEPT !.pc = "validate_read"])
    /\ UNCHANGED <<standalone, harness, passedChecks, mutex, entMutex, securityLevelMaintained,
                   sideChannelDetected, entropyLevel, sigUsers, kemUsers>>

ValidateOutcome(s) ==
    IF securityLevelMaintained
    THEN [s EXCEPT !.pc = "work"]
    ELSE Throw(s, QuantumError("Security level compromised"))

ValidateRead(t) ==
    /\ th[t].pc = "validate_read"
    /\ monMutex' = NoThread
    /\ Upd(t, ValidateOutcome(th[t]))
    /\ UNCHANGED <<standalone, harness, passedChecks, mutex, entMutex, securityLevelMaintained,
                   sideChannelDetected, entropyLevel, sigUsers, kemUsers>>

(* monitorEntropy: RAND_status, then a 32-byte RAND_bytes probe. *)
MonitorEntropy(randStatus, randBytes) ==
    IF ~randStatus THEN QuantumError("Insufficient entropy available")
    ELSE IF ~randBytes
    THEN QuantumError("Failed to generate random bytes - entropy pool may be depleted")
    ELSE NoExc

(* SecureBuffer<T>(size) for the sizes the orchestrator asks for (all      *)
(* positive): fails only when OPENSSL_secure_malloc refuses.               *)
SecureBufferAlloc(alloc) ==
    IF ~alloc THEN MemoryError("Secure memory allocation failed") ELSE NoExc

WorkOutcomeKyberDraws(s, randStatus, randBytes, alloc) ==
    CASE s.op \in {"generateDilithiumKeyPair", "generateKyberKeyPair"} ->
            IF MonitorEntropy(randStatus, randBytes) # NoExc
            THEN Throw([s EXCEPT !.drew = randStatus],
                       MonitorEntropy(randStatus, randBytes))
            ELSE IF SecureBufferAlloc(alloc) # NoExc
            THEN Throw([s EXCEPT !.drew = TRUE], SecureBufferAlloc(alloc))
            ELSE [s EXCEPT !.drew = TRUE, !.pc = "getBytes"]
      [] s.op = "verify" ->
            IF s.arg.sig.len # length_signature
            THEN [s EXCEPT !.pc = "log", !.res = ResBool(FALSE)]
            ELSE [s EXCEPT !.pc = "provider"]
      [] OTHER ->
            IF SecureBufferAlloc(alloc) # NoExc
            THEN Throw(s, SecureBufferAlloc(alloc))
            ELSE [s EXCEPT !.pc = "provider"]

(* The work between the security-level check and the provider call. *)
WorkOutcome(s, randStatus, randBytes, alloc) ==
    CASE s.op \in {"generateDilithiumKeyPair", "generateKyberKeyPair"} ->
            IF MonitorEntropy(randStatus, randBytes) # NoExc
            THEN Throw([s EXCEPT !.drew = randStatus],
                       MonitorEntropy(randStatus, randBytes))
            ELSE IF SecureBufferAlloc(alloc) # NoExc
            THEN Throw([s EXCEPT !.drew = TRUE], SecureBufferAlloc(alloc))
            ELSE [s EXCEPT !.drew = TRUE,
                           !.pc = IF s.op = "generateDilithiumKeyPair"
                                  THEN "getBytes" ELSE "provider"]
      [] s.op = "verify" ->
            IF s.arg.sig.len # length_signature
            THEN [s EXCEPT !.pc = "log", !.res = ResBool(FALSE)]
            ELSE [s EXCEPT !.pc = "provider"]
      [] OTHER ->
            IF SecureBufferAlloc(alloc) # NoExc
            THEN Throw(s, SecureBufferAlloc(alloc))
            ELSE [s EXCEPT !.pc = "provider"]

(* The count of generateDilithiumKeyPair calls that have returned from     *)
(* validateSecurityLevel() and monitorEntropy() without an exception.      *)
PassedAfter(s, randStatus, randBytes) ==
    IF /\ s.op = "generateDilithiumKeyPair"
       /\ MonitorEntropy(randStatus, randBytes) = NoExc
    THEN passedChecks + 1
    ELSE passedChecks

Work(t) ==
    /\ th[t].pc = "work"
    /\ \E randStatus \in BOOLEAN, randBytes \in BOOLEAN, alloc \in BOOLEAN :
         /\ Upd(t, WorkOutcome(th[t], randStatus, randBytes, alloc))
         /\ passedChecks' = PassedAfter(th[t], randStatus, randBytes)
    /\ UNCHANGED <<standalone, harness, mutex, monMutex, entMutex, securityLevelMaintained,
                   sideChannelDetected, entropyLevel, sigUsers, kemUsers>>

(* EntropyPool::getBytes(32): lock, RAND_bytes, add to the counter. *)
GetBytes(t) ==
    /\ th[t].pc = "getBytes"
    /\ entMutex = NoThread
    /\ entMutex' = t
    /\ Upd(t, [th[t] EXCEPT !.pc = "getBytes_locked"])
    /\ UNCHANGED <<standalone, harness, passedChecks, mutex, monMutex, securityLevelMaintained,
                   sideChannelDetected, entropyLevel, sigUsers, kemUsers>>

LevelAfterAttempt(rand) == entropyLevel + ENTROPY_DRAW

(* impl->entropyLevel += length comes after the throw on a failed          *)
(* RAND_bytes, so only a draw that succeeded is counted.                   *)
LevelAfter(rand) == IF rand THEN entropyLevel + ENTROPY_DRAW ELSE entropyLevel

GetBytesLocked(t) ==
    /\ th[t].pc = "getBytes_locked"
    /\ entMutex' = NoThread
    /\ \E rand \in BOOLEAN :
         /\ entropyLevel' = LevelAfter(rand)
         /\ Upd(t, IF rand
                   THEN [th[t] EXCEPT !.pc = "provider", !.drew = TRUE]
                   ELSE Throw([th[t] EXCEPT !.drew = TRUE],
                              RuntimeError("Failed to generate random bytes")))
    /\ UNCHANGED <<standalone, harness, passedChecks, mutex, monMutex, securityLevelMaintained,
                   sideChannelDetected, sigUsers, kemUsers>>

(* The call into the algorithm provider: OQS_SIG_* on the dilithium        *)
(* context, OQS_KEM_* on the kyber context.                                *)
ProviderCall(t) ==
    /\ th[t].pc = "provider"
    /\ IF th[t].op \in SigOps
       THEN sigUsers' = sigUsers \cup {t} /\ kemUsers' = kemUsers
       ELSE kemUsers' = kemUsers \cup {t} /\ sigUsers' = sigUsers
    /\ Upd(t, [th[t] EXCEPT !.pc = "provider_ret", !.called = TRUE])
    /\ UNCHANGED <<standalone, harness, passedChecks, mutex, monMutex, entMutex, securityLevelMaintained,
                   sideChannelDetected, entropyLevel>>

(* OQS_SIG_verify: success exactly for a full-length signature made for    *)
(* this message by the private half of this key.                           *)
OQS_SIG_verify(msg, sig, key) ==
    sig.msg = msg /\ sig.key = key /\ sig.len = length_signature

ProviderFailureOneText(o) ==
    IF o = "verify" THEN NoExc ELSE QuantumError("Provider call failed")

(* The failure text of each operation when its provider call reports       *)
(* anything but OQS_SUCCESS.                                               *)
ProviderFailure(o) ==
    CASE o = "generateDilithiumKeyPair" -> QuantumError("Dilithium key generation failed")
      [] o = "generateKyberKeyPair" -> QuantumError("Kyber key generation failed")
      [] o = "sign" -> QuantumError("Signing failed")
      [] o = "kyberEncapsulate" -> QuantumError("Kyber encapsulation failed")
      [] o = "kyberDecapsulate" -> QuantumError("Kyber decapsulation failed")
      [] OTHER -> NoExc

(* What each operation returns when its provider call succeeded: the raw   *)
(* output wrapped in freshly allocated Buffers.  sign sizes the Signature  *)
(* by the length the provider reported.                                    *)
Wrapped(s, k, sigLen) ==
    CASE s.op \in {"generateDilithiumKeyPair", "generateKyberKeyPair"} -> ResKeyPair(k)
      [] s.op = "sign" ->
            ResSignature([msg |-> s.arg.msg, key |-> s.arg.key, len |-> sigLen])
      [] s.op = "kyberEncapsulate" -> ResKyber(s.arg.key, s.arg.key)
      [] OTHER -> ResSecret(IF s.arg.ct = s.arg.key THEN s.arg.key ELSE 0)

ProviderOutcomeVerifyThrows(s, status, k, sigLen, alloc) ==
    IF status # "success"
    THEN Throw(s, IF s.op = "verify"
                  THEN QuantumError("Signature verification failed")
                  ELSE ProviderFailure(s.op))
    ELSE IF s.op = "verify" THEN [s EXCEPT !.pc = "unlock", !.res = ResBool(TRUE)]
    ELSE IF SecureBufferAlloc(alloc) # NoExc THEN Throw(s, SecureBufferAlloc(alloc))
    ELSE [s EXCEPT !.pc = "unlock", !.res = Wrapped(s, k, sigLen)]

(* What the operation does with the status its provider call reported. *)
ProviderOutcome(s, status, k, sigLen, alloc) ==
    IF s.op = "verify"
    THEN IF status = "success"
         THEN [s EXCEPT !.pc = "unlock", !.res = ResBool(TRUE)]
         ELSE [s EXCEPT !.pc = "log", !.res = ResBool(FALSE)]
    ELSE IF status # "success" THEN Throw(s, ProviderFailure(s.op))
    ELSE IF SecureBufferAlloc(alloc) # NoExc THEN Throw(s, SecureBufferAlloc(alloc))
    ELSE [s EXCEPT !.pc = "unlock", !.res = Wrapped(s, k, sigLen)]

(* The statuses the provider can report to s: OQS_SIG_verify is a function *)
(* of its arguments, every other entry may succeed or fail.                *)
Statuses(s) ==
    IF s.op = "verify"
    THEN {IF OQS_SIG_verify(s.arg.msg, s.arg.sig, s.arg.key)
          THEN "success" ELSE "error"}
    ELSE {"success", "error"}

ProviderReturn(t) ==
    /\ th[t].pc = "provider_ret"
    /\ sigUsers' = sigUsers \ {t}
    /\ kemUsers' = kemUsers \ {t}
    /\ \E status \in Statuses(th[t]), k \in KeyIds, sigLen \in 1..length_signature,
          alloc \in BOOLEAN :
         Upd(t, ProviderOutcome([th[t] EXCEPT !.status = status],
                                status, k, sigLen, alloc))
    /\ UNCHANGED <<standalone, harness, passedChecks, mutex, monMutex, entMutex, securityLevelMaintained,
                   sideChannelDetected, entropyLevel>>

(* SecurityMonitor::logFailure(operation, error): takes the monitor's      *)
(* mutex, writes the record, releases.                                     *)
Log(t) ==
    /\ th[t].pc = "log"
    /\ monMutex = NoThread
    /\ monMutex' = t
    /\ Upd(t, [th[t] EXCEPT !.pc = "log_write"])
    /\ UNCHANGED <<standalone, harness, passedChecks, mutex, entMutex, securityLevelMaintained,
                   sideChannelDetected, entropyLevel, sigUsers, kemUsers>>

(* The error text handed to logFailure: e.what() in a catch clause, one of *)
(* two fixed texts on verify's two negative paths.                         *)
FailureText(s) ==
    IF s.res.kind = "error" THEN s.res.exc.what
    ELSE IF s.arg.sig.len # length_signature THEN "Signature length mismatch"
    ELSE "Signature verification failed"

LogOutcomeThrows(s, sink) ==
    IF sink.file = "appended"
    THEN [s EXCEPT !.pc = "unlock", !.sink = sink,
                   !.logged = [operation |-> LogName(s.op), error |-> FailureText(s)]]
    ELSE [s EXCEPT !.pc = "unlock", !.sink = sink,
                   !.res = ResError(RuntimeError("basic_ios::clear"))]

(* The body of logFailure: the message goes to std::cerr and to the log    *)
(* file; a stream that fails keeps its failure in its state bits, the      *)
(* file is written only if (logFile.is_open()).  The caller goes on with   *)
(* what it had: the exception to rethrow, or verify's false.               *)
LogOutcome(s, sink) ==
    [s EXCEPT !.pc = "unlock", !.sink = sink,
              !.logged = [operation |-> LogName(s.op), error |-> FailureText(s)]]

LogWrite(t) ==
    /\ th[t].pc = "log_write"
    /\ monMutex' = NoThread
    /\ \E sink \in SinkOutcomes : Upd(t, LogOutcome(th[t], sink))
    /\ UNCHANGED <<standalone, harness, passedChecks, mutex, entMutex, securityLevelMaintained,
                   sideChannelDetected, entropyLevel, sigUsers, kemUsers>>

-----------------------------------------------------------------------------
(* healthCheck *)

HealthResultTrue(s, b) ==
    [IdleThread EXCEPT !.pc = "hc_ret", !.op = "healthCheck", !.res = ResBool(TRUE),
                       !.logged = s.logged]

HealthResult(s, b) ==
    [IdleThread EXCEPT !.pc = "hc_ret", !.op = "healthCheck", !.res = ResBool(b),
                       !.logged = s.logged]

SubCall(s, o, stage, a) ==
    [s EXCEPT !.pc = Entry(o), !.op = o, !.hc = stage, !.arg = a, !.res = NoRes,
              !.called = FALSE, !.drew = FALSE, !.status = "none", !.filled = 0]

(* After the sub-operation of stage s.hc handed r to healthCheck: any      *)
(* exception ends in catch (...) { return false; }, otherwise the next     *)
(* sub-operation is called with the values of the earlier ones.            *)
HealthNext(s, alloc) ==
    IF s.res.kind = "error" THEN HealthResult(s, FALSE)
    ELSE CASE s.hc = "keygen" ->
                SubCall([s EXCEPT !.key = s.res.key], "generateSecureRandom",
                        "random", [NoArg EXCEPT !.len = ENTROPY_DRAW])
           [] s.hc = "random" ->
                IF SecureBufferAlloc(alloc) # NoExc THEN HealthResult(s, FALSE)
                ELSE SubCall([s EXCEPT !.msg = s.res.msg], "sign", "sign",
                             [NoArg EXCEPT !.msg = s.res.msg, !.key = s.key])
           [] s.hc = "sign" ->
                IF SecureBufferAlloc(alloc) # NoExc THEN HealthResult(s, FALSE)
                ELSE SubCall(s, "verify", "verify",
                             [NoArg EXCEPT !.msg = s.msg, !.sig = s.res.sig,
                                           !.key = s.key])
           [] OTHER ->
                IF s.res.ok
                THEN [IdleThread EXCEPT !.pc = "hc_side", !.op = "healthCheck"]
                ELSE HealthResult(s, FALSE)

(* Handing the outcome of a finished body to whoever called it. *)
Deliver(s, alloc) ==
    IF s.hc = "none" THEN IdleThread ELSE HealthNext(s, alloc)

hasGoodQualityAbove == entropyLevel > MIN_ENTROPY_LEVEL

(* if (!pImpl->entropy.hasGoodQuality()) return false; then the first      *)
(* sub-operation, generateDilithiumKeyPair().                              *)
hasGoodQuality == entropyLevel >= MIN_ENTROPY_LEVEL

HealthCheckLockHeld(t) == mutex = NoThread /\ mutex' = t

(* healthCheck itself declares no lock_guard: it leaves the orchestrator   *)
(* mutex to the sub-operations it calls.                                   *)
HealthCheckLock(t) == UNCHANGED mutex

HealthQuality(t) ==
    /\ th[t].pc = "hc_quality"
    /\ HealthCheckLock(t)
    /\ Upd(t, IF hasGoodQuality
              THEN SubCall(th[t], "generateDilithiumKeyPair", "keygen", NoArg)
              ELSE HealthResult(th[t], FALSE))
    /\ UNCHANGED <<standalone, harness, passedChecks, monMutex, entMutex, securityLevelMaintained,
                   sideChannelDetected, entropyLevel, sigUsers, kemUsers>>

(* checkForSideChannels: SecurityMonitor::detectSideChannelVulnerability   *)
(* under the monitor's mutex; a detected channel throws, which healthCheck *)
(* catches.                                                                *)
HealthSide(t) ==
    /\ th[t].pc = "hc_side"
    /\ monMutex = NoThread
    /\ monMutex' = t
    /\ Upd(t, [th[t] EXCEPT !.pc = "hc_side_read"])
    /\ UNCHANGED <<standalone, harness, passedChecks, mutex, entMutex, securityLevelMaintained,
                   sideChannelDetected, entropyLevel, sigUsers, kemUsers>>

HealthSideRead(t) ==
    /\ th[t].pc = "hc_side_read"
    /\ monMutex' = NoThread
    /\ Upd(t, HealthResult(th[t], ~sideChannelDetected))
    /\ UNCHANGED <<standalone, harness, passedChecks, mutex, entMutex, securityLevelMaintained,
                   sideChannelDetected, entropyLevel, sigUsers, kemUsers>>

HealthReturn(t) ==
    /\ th[t].pc = "hc_ret"
    /\ Upd(t, IdleThread)
    /\ UNCHANGED <<standalone, harness, passedChecks, mutex, monMutex, entMutex, securityLevelMaintained,
                   sideChannelDetected, entropyLevel, sigUsers, kemUsers>>

-----------------------------------------------------------------------------
(* Leaving a locking operation: the lock_guard's destructor releases the   *)
(* orchestrator mutex on return and on throw alike.                        *)
StillHeldBy(t) == t

ReleasedBy(t) == NoThread

Unlock(t) ==
    /\ th[t].pc = "unlock"
    /\ mutex' = ReleasedBy(t)
    /\ \E alloc \in BOOLEAN : Upd(t, Deliver(th[t], alloc))
    /\ UNCHANGED <<standalone, harness, passedChecks, monMutex, entMutex, securityLevelMaintained,
                   sideChannelDetected, entropyLevel, sigUsers, kemUsers>>

-----------------------------------------------------------------------------
(* The int parameter of RAND_bytes(buf, num), scaled to INT_BITS bits: a   *)
(* size_t length reaches it through static_cast<int>(length) in getBytes   *)
(* and through the implicit conversion in generateSecureRandom, both       *)
(* keeping the low INT_BITS bits, two's complement.                        *)
NarrowInt(n) ==
    LET m == n % (2 ^ INT_BITS)
    IN  IF m >= 2 ^ (INT_BITS - 1) THEN m - 2 ^ INT_BITS ELSE m

(* The bytes a successful RAND_bytes(buf, num) wrote: the first num of the *)
(* buffer.                                                                 *)
Filled(n) == NarrowInt(n)

(* generateSecureRandom(length): Buffer result(length); RAND_bytes.  No    *)
(* lock, no security-level check, no try/catch.                            *)
RandomOutcome(s, alloc, rand, m) ==
    IF s.arg.len = 0
    THEN [s EXCEPT !.res = ResError(MemoryError("Zero-sized buffer requested"))]
    ELSE IF SecureBufferAlloc(alloc) # NoExc
    THEN [s EXCEPT !.res = ResError(SecureBufferAlloc(alloc))]
    ELSE IF NarrowInt(s.arg.len) < 0 \/ ~rand
    THEN [s EXCEPT !.drew = TRUE, !.status = "error",
                   !.res = ResError(QuantumError("Failed to generate secure random bytes"))]
    ELSE [s EXCEPT !.drew = TRUE, !.status = "success", !.res = ResBuffer(m),
                   !.filled = Filled(s.arg.len)]

Random(t) ==
    /\ th[t].pc = "random"
    /\ \E alloc \in BOOLEAN, rand \in BOOLEAN, m \in Messages :
         Upd(t, [RandomOutcome(th[t], alloc, rand, m) EXCEPT !.pc = "random_ret"])
    /\ UNCHANGED <<standalone, harness, passedChecks, mutex, monMutex, entMutex, securityLevelMaintained,
                   sideChannelDetected, entropyLevel, sigUsers, kemUsers>>

RandomReturn(t) ==
    /\ th[t].pc = "random_ret"
    /\ \E alloc \in BOOLEAN : Upd(t, Deliver(th[t], alloc))
    /\ UNCHANGED <<standalone, harness, passedChecks, mutex, monMutex, entMutex, securityLevelMaintained,
                   sideChannelDetected, entropyLevel, sigUsers, kemUsers>>

-----------------------------------------------------------------------------
(* EntropyPool driven directly: threads calling getBytes(length) on one    *)
(* pool, with the provider's RAND_status() changing between calls.         *)
(* size_t is scaled to SIZE_BITS bits.                                     *)

(* The lengths the callers ask for: nothing, the orchestrator's draw, the  *)
(* quality threshold at once, and a length beyond the range of int.        *)
PoolLengths == {0, ENTROPY_DRAW, MIN_ENTROPY_LEVEL, 2 ^ INT_BITS + ENTROPY_DRAW}

BadAlloc == [type |-> "std::bad_alloc", what |-> "std::bad_alloc"]

(* The std::vector<uint8_t> of arg.len bytes getBytes returns. *)
ResBytes == [NoRes EXCEPT !.kind = "bytes"]

InitPool == harness = "pool" /\ InitInstance

PoolCall(t) ==
    /\ harness = "pool"
    /\ th[t].pc = "idle"
    /\ pool.calls < MaxPoolDraws
    /\ \E n \in PoolLengths :
         Upd(t, [IdleThread EXCEPT !.pc = "pool_lock", !.op = "getBytes",
                                   !.arg = [NoArg EXCEPT !.len = n]])
    /\ pool' = [pool EXCEPT !.calls = @ + 1]
    /\ UNCHANGED <<single, mem, b64, harness, passedChecks, mutex, monMutex, entMutex, securityLevelMaintained,
                   sideChannelDetected, entropyLevel, sigUsers, kemUsers>>

(* std::lock_guard<std::mutex> lock(pImpl->mutex) *)
PoolLock(t) ==
    /\ th[t].pc = "pool_lock"
    /\ entMutex = NoThread
    /\ entMutex' = t
    /\ Upd(t, [th[t] EXCEPT !.pc = "pool_rand"])
    /\ UNCHANGED <<standalone, harness, passedChecks, mutex, monMutex, securityLevelMaintained,
                   sideChannelDetected, entropyLevel, sigUsers, kemUsers>>

(* std::vector<uint8_t> bytes(length), then RAND_bytes(bytes.data(),       *)
(* static_cast<int>(length)): the allocation may be refused, RAND_bytes    *)
(* may report failure; RAND_status() is not asked.                         *)
PoolRandOutcome(s, alloc, rand) ==
    IF s.arg.len > 0 /\ ~alloc
    THEN [s EXCEPT !.pc = "pool_ret", !.res = ResError(BadAlloc)]
    ELSE IF NarrowInt(s.arg.len) < 0 \/ ~rand
    THEN [s EXCEPT !.pc = "pool_ret", !.drew = TRUE, !.status = "error",
                   !.res = ResError(RuntimeError("Failed to generate random bytes"))]
    ELSE [s EXCEPT !.pc = "pool_add", !.drew = TRUE, !.status = "success",
                   !.filled = Filled(s.arg.len)]

PoolRand(t) ==
    /\ th[t].pc = "pool_rand"
    /\ \E alloc \in BOOLEAN, rand \in BOOLEAN :
         Upd(t, PoolRandOutcome(th[t], alloc, rand))
    /\ UNCHANGED <<standalone, harness, passedChecks, mutex, monMutex, entMutex,
                   securityLevelMaintained, sideChannelDetected, entropyLevel,
                   sigUsers, kemUsers>>

PoolLevelSet(level, n) == n

(* pImpl->entropyLevel += length on the std::atomic<size_t>. *)
PoolLevelAfter(level, n) == (level + n) % (2 ^ SIZE_BITS)

PoolAdd(t) ==
    /\ th[t].pc = "pool_add"
    /\ entropyLevel' = PoolLevelAfter(entropyLevel, th[t].arg.len)
    /\ Upd(t, [th[t] EXCEPT !.pc = "pool_ret", !.res = ResBytes])
    /\ UNCHANGED <<standalone, harness, passedChecks, mutex, monMutex, entMutex,
                   securityLevelMaintained, sideChannelDetected, sigUsers, kemUsers>>

(* return bytes, or the exception leaving getBytes: the lock_guard's       *)
(* destructor releases the pool's mutex.                                   *)
PoolReturn(t) ==
    /\ th[t].pc = "pool_ret"
    /\ entMutex' = NoThread
    /\ pool' = [pool EXCEPT !.returned =
                   IF th[t].res = ResBytes THEN @ + th[t].arg.len ELSE @]
    /\ Upd(t, IdleThread)
    /\ UNCHANGED <<single, mem, b64, harness, passedChecks, mutex, monMutex,
                   securityLevelMaintained, sideChannelDetected, entropyLevel,
                   sigUsers, kemUsers>>

(* The provider's entropy source turning unhealthy or healthy again, at a  *)
(* moment when no draw is in flight.                                       *)
SourceChange ==
    /\ harness = "pool"
    /\ \A t \in Threads : th[t].pc = "idle"
    /\ pool' = [pool EXCEPT !.healthy = ~@]
    /\ UNCHANGED <<single, mem, b64, harness, passedChecks, mutex, monMutex, entMutex, securityLevelMaintained,
                   sideChannelDetected, entropyLevel, sigUsers, kemUsers, th>>

PoolStep(t) ==
    \/ PoolCall(t)
    \/ PoolLock(t)
    \/ PoolRand(t)
    \/ PoolAdd(t)
    \/ PoolReturn(t)

NextPool == (\E t \in Threads : PoolStep(t)) \/ SourceChange

SpecPool == InitPool /\ [][NextPool]_vars

-----------------------------------------------------------------------------
(* QuantumCrypto::getInstance(params): threads asking for the instance.   *)
(* `static QuantumCrypto instance;` is initialised by the first call that *)
(* reaches it; calls arriving meanwhile wait; a constructor that throws   *)
(* leaves it uninitialised for the next call.                             *)

(* The SecurityParams a caller can pass. *)
SecurityParamsValues ==
    [entropyQuality : {128, MIN_ENTROPY_LEVEL}, securityLevel : {256},
     sidechannelProtection : BOOLEAN]

(* What QuantumCrypto::QuantumCrypto() builds, whoever asks: it takes no   *)
(* argument.  The quality threshold is the pool's MIN_ENTROPY_LEVEL, the   *)
(* algorithms are Dilithium-5 and Kyber-1024 (256-bit parameter sets), and *)
(* healthCheck always runs checkForSideChannels.                           *)
BuiltIn ==
    [entropyQuality |-> MIN_ENTROPY_LEVEL, securityLevel |-> 256,
     sidechannelProtection |-> TRUE]

InitSingleton == harness = "singleton" /\ InitInstance

SetCall(t, c) == [single EXCEPT !.call[t] = c]

GetInstanceCall(t) ==
    /\ harness = "singleton"
    /\ single.call[t].pc = "idle"
    /\ \E p \in SecurityParamsValues :
         single' = [SetCall(t, [pc |-> "enter", params |-> p, ret |-> "none"])
                       EXCEPT !.first = IF @ = NoParams THEN p ELSE @]
    /\ UNCHANGED <<pool, mem, b64, harness, passedChecks, mutex, monMutex, entMutex,
                   securityLevelMaintained, sideChannelDetected, entropyLevel,
                   sigUsers, kemUsers, th>>

(* Reaching the declaration of the static: initialised already, or to be   *)
(* initialised by this call; a call that finds another one initialising it *)
(* waits.                                                                  *)
GetInstanceEnter(t) ==
    /\ single.call[t].pc = "enter"
    /\ single.guard # "busy"
    /\ single' =
         IF single.guard = "done"
         THEN SetCall(t, [single.call[t] EXCEPT !.pc = "ret", !.ret = "instance"])
         ELSE [SetCall(t, [single.call[t] EXCEPT !.pc = "construct"])
                  EXCEPT !.guard = "busy"]
    /\ UNCHANGED <<pool, mem, b64, harness, passedChecks, mutex, monMutex, entMutex,
                   securityLevelMaintained, sideChannelDetected, entropyLevel,
                   sigUsers, kemUsers, th>>

(* QuantumCrypto::QuantumCrypto(): make_unique<Implementation>() throws if *)
(* a provider context cannot be created or the entropy source is not       *)
(* ready; otherwise the instance exists, built from no parameter.          *)
GetInstanceConstruct(t) ==
    /\ single.call[t].pc = "construct"
    /\ \E ok \in BOOLEAN :
         single' =
           IF ok
           THEN [SetCall(t, [single.call[t] EXCEPT !.pc = "ret", !.ret = "instance"])
                    EXCEPT !.guard = "done", !.built = @ + 1, !.config = BuiltIn]
           ELSE [SetCall(t, [single.call[t] EXCEPT !.pc = "ret", !.ret = "error"])
                    EXCEPT !.guard = "uninit"]
    /\ UNCHANGED <<pool, mem, b64, harness, passedChecks, mutex, monMutex, entMutex,
                   securityLevelMaintained, sideChannelDetected, entropyLevel,
                   sigUsers, kemUsers, th>>

GetInstanceReturn(t) ==
    /\ single.call[t].pc = "ret"
    /\ single' = SetCall(t, NoCall)
    /\ UNCHANGED <<pool, mem, b64, harness, passedChecks, mutex, monMutex, entMutex,
                   securityLevelMaintained, sideChannelDetected, entropyLevel,
                   sigUsers, kemUsers, th>>

NextSingleton ==
    \E t \in Threads :
        \/ GetInstanceCall(t)
        \/ GetInstanceEnter(t)
        \/ GetInstanceConstruct(t)
        \/ GetInstanceReturn(t)

SpecSingleton == InitSingleton /\ [][NextSingleton]_vars

-----------------------------------------------------------------------------
(* SecureBuffer<T> and Buffer driven directly: one owner constructing,     *)
(* writing, clearing, moving and destroying buffers.  mem.elem is          *)
(* sizeof(T); a region holds elements of T, each zero or not.              *)

SIZE_MAX == 2 ^ SIZE_BITS - 1

(* sizeof(T) of the instantiations: uint8_t and a four-byte T. *)
ElemSizes == {1, 4}

(* What the secure heap can hold at most, in bytes. *)
HeapCapacity == 4 * MaxLen

(* The sizes a caller asks for: none, small ones, and two that are huge. *)
AcquireSizes == (0..MaxLen) \cup {SIZE_MAX \div 4 + 1, SIZE_MAX}

DataInputs == UNION {[1..n -> ByteValues] : n \in 0..MaxLen}

InitMemory ==
    /\ harness = "memory"
    /\ InitOrchestrator
    /\ PoolInit /\ SingleInit /\ B64Init
    /\ \E e \in ElemSizes : mem = [MemIdle EXCEPT !.elem = e]

UnusedRegions == {r \in Regions : mem.heap[r].state = "unused"}

AcquireOutcomeZeroOk(n, elem, alloc) ==
    IF n > SIZE_MAX \div elem
    THEN MemoryError("Requested buffer size is too large")
    ELSE IF ~alloc THEN MemoryError("Secure memory allocation failed")
    ELSE NoExc

(* SecureBuffer(size_t size): the three throws of the constructor; alloc   *)
(* is what OPENSSL_secure_malloc(size_ * sizeof(T)) answers.               *)
AcquireOutcome(n, elem, alloc) ==
    IF n = 0 THEN MemoryError("Zero-sized buffer requested")
    ELSE IF n > SIZE_MAX \div elem
    THEN MemoryError("Requested buffer size is too large")
    ELSE IF ~alloc THEN MemoryError("Secure memory allocation failed")
    ELSE NoExc

(* The answers the allocator can give to a request of n elements. *)
AllocAnswers(n) ==
    IF n * mem.elem <= HeapCapacity /\ UnusedRegions # {} THEN BOOLEAN ELSE {FALSE}

(* A region as OPENSSL_secure_malloc hands it out: n elements of whatever  *)
(* the memory held.                                                        *)
FreshContents(n) == [1..n -> ByteValues]

Constructed(b, n, exc, r, bytes, opname) ==
    IF exc # NoExc
    THEN [mem EXCEPT !.last = [NoOp EXCEPT !.op = opname, !.dst = b, !.n = n,
                                           !.exc = exc]]
    ELSE [mem EXCEPT !.bufs[b] = [state |-> "live", size_ |-> n, data_ |-> r],
                     !.heap[r] = [state |-> "allocated", bytes |-> bytes,
                                  frees |-> 0],
                     !.last = [NoOp EXCEPT !.op = opname, !.dst = b, !.n = n,
                                           !.bytes = bytes]]

NextRegion == IF UnusedRegions = {} THEN 0 ELSE CHOOSE r \in UnusedRegions :
                  \A q \in UnusedRegions : r <= q

(* SecureBuffer<T>(size) / Buffer(size): contents are not initialised. *)
MemAcquire(b) ==
    /\ harness = "memory"
    /\ mem.bufs[b].state = "none"
    /\ \E n \in AcquireSizes : \E alloc \in AllocAnswers(n) :
         LET exc == AcquireOutcome(n, mem.elem, alloc)
         IN  \E bytes \in (IF exc = NoExc THEN FreshContents(n) ELSE {<<>>}) :
               mem' = Constructed(b, n, exc, NextRegion, bytes, "acquire")
    /\ UNCHANGED <<pool, single, b64, harness, passedChecks, mutex, monMutex, entMutex,
                   securityLevelMaintained, sideChannelDetected, entropyLevel,
                   sigUsers, kemUsers, th>>

(* Buffer(const uint8_t *data, size_t size): SecureBuffer<uint8_t>(size),  *)
(* then memcpy of the size bytes.                                          *)
MemFromData(b) ==
    /\ harness = "memory"
    /\ mem.elem = 1
    /\ mem.bufs[b].state = "none"
    /\ \E data \in DataInputs : \E alloc \in AllocAnswers(Len(data)) :
         mem' = Constructed(b, Len(data), AcquireOutcome(Len(data), mem.elem, alloc),
                            NextRegion, data, "from_data")
    /\ UNCHANGED <<pool, single, b64, harness, passedChecks, mutex, monMutex, entMutex,
                   securityLevelMaintained, sideChannelDetected, entropyLevel,
                   sigUsers, kemUsers, th>>

(* The owner writing through data(). *)
MemWrite(b) ==
    /\ mem.bufs[b].state = "live"
    /\ mem.bufs[b].data_ # 0
    /\ \E i \in 1..mem.bufs[b].size_, v \in ByteValues :
         /\ mem.heap[mem.bufs[b].data_].bytes[i] # v
         /\ mem' = [mem EXCEPT !.heap[mem.bufs[b].data_].bytes[i] = v,
                               !.last = [NoOp EXCEPT !.op = "write", !.dst = b]]
    /\ UNCHANGED <<pool, single, b64, harness, passedChecks, mutex, monMutex, entMutex,
                   securityLevelMaintained, sideChannelDetected, entropyLevel,
                   sigUsers, kemUsers, th>>

ZeroNothing(bytes, k) == bytes

(* secureZero(data_, size_ * sizeof(T)): the first k elements become zero. *)
Zero(bytes, k) == [i \in 1..Len(bytes) |-> IF i <= k THEN 0 ELSE bytes[i]]

(* void clear() *)
MemClear(b) ==
    /\ mem.bufs[b].state = "live"
    /\ LET buf == mem.bufs[b]
       IN  mem' = [mem EXCEPT
                     !.heap = IF buf.data_ # 0 /\ buf.size_ > 0
                              THEN [@ EXCEPT ![buf.data_].bytes = Zero(@, buf.size_)]
                              ELSE @,
                     !.last = [NoOp EXCEPT !.op = "clear", !.dst = b, !.was = buf]]
    /\ UNCHANGED <<pool, single, b64, harness, passedChecks, mutex, monMutex, entMutex,
                   securityLevelMaintained, sideChannelDetected, entropyLevel,
                   sigUsers, kemUsers, th>>

(* The elements a buffer holds. *)
BytesOf(buf) == IF buf.data_ = 0 THEN <<>> ELSE mem.heap[buf.data_].bytes

(* if (data_) { secureZero(data_, size_ * sizeof(T));                      *)
(*              OPENSSL_secure_free(data_); }                              *)
Release(heap, buf) ==
    IF buf.data_ # 0
    THEN [heap EXCEPT ![buf.data_] =
             [state |-> "freed", bytes |-> Zero(@.bytes, buf.size_),
              frees |-> @.frees + 1]]
    ELSE heap

(* ~SecureBuffer() *)
MemDestroy(b) ==
    /\ mem.bufs[b].state = "live"
    /\ mem' = [mem EXCEPT !.heap = Release(@, mem.bufs[b]),
                          !.bufs[b] = NoBuf,
                          !.last = [NoOp EXCEPT !.op = "destroy", !.dst = b,
                                                !.was = mem.bufs[b],
                                                !.old = BytesOf(mem.bufs[b])]]
    /\ UNCHANGED <<pool, single, b64, harness, passedChecks, mutex, monMutex, entMutex,
                   securityLevelMaintained, sideChannelDetected, entropyLevel,
                   sigUsers, kemUsers, th>>

MovedFromKept(buf) == buf

(* other.data_ = nullptr; other.size_ = 0; *)
MovedFrom(buf) == [buf EXCEPT !.size_ = 0, !.data_ = 0]

(* SecureBuffer(SecureBuffer &&other) *)
MemMoveConstruct(d, o) ==
    /\ mem.bufs[d].state = "none"
    /\ mem.bufs[o].state = "live"
    /\ mem' = [mem EXCEPT !.bufs = [@ EXCEPT ![d] = mem.bufs[o],
                                             ![o] = MovedFrom(mem.bufs[o])],
                          !.last = [NoOp EXCEPT !.op = "move_construct", !.dst = d,
                                                !.src = o, !.was = mem.bufs[o],
                                                !.bytes = BytesOf(mem.bufs[o])]]
    /\ UNCHANGED <<pool, single, b64, harness, passedChecks, mutex, monMutex, entMutex,
                   securityLevelMaintained, sideChannelDetected, entropyLevel,
                   sigUsers, kemUsers, th>>

(* SecureBuffer &operator=(SecureBuffer &&other) *)
MemMoveAssign(d, o) ==
    /\ mem.bufs[d].state = "live"
    /\ mem.bufs[o].state = "live"
    /\ mem' = [mem EXCEPT
                 !.heap = IF d # o THEN Release(@, mem.bufs[d]) ELSE @,
                 !.bufs = IF d # o
                          THEN [@ EXCEPT ![d] = mem.bufs[o],
                                         ![o] = MovedFrom(mem.bufs[o])]
                          ELSE @,
                 !.last = [NoOp EXCEPT !.op = "move_assign", !.dst = d, !.src = o,
                                       !.was = mem.bufs[o],
                                       !.bytes = BytesOf(mem.bufs[o]),
                                       !.old = BytesOf(mem.bufs[d])]]
    /\ UNCHANGED <<pool, single, b64, harness, passedChecks, mutex, monMutex, entMutex,
                   securityLevelMaintained, sideChannelDetected, entropyLevel,
                   sigUsers, kemUsers, th>>

NextMemory ==
    \E b \in Slots :
        \/ MemAcquire(b)
        \/ MemFromData(b)
        \/ MemWrite(b)
        \/ MemClear(b)
        \/ MemDestroy(b)
        \/ \E o \in Slots : MemMoveConstruct(b, o)
        \/ \E o \in Slots : MemMoveAssign(b, o)

SpecMemory == InitMemory /\ [][NextMemory]_vars

-----------------------------------------------------------------------------
(* Buffer::toBase64 and Buffer::fromBase64 on one byte sequence: a Buffer  *)
(* is built from the bytes, encoded, and the text decoded again.  The text *)
(* is the sequence of its characters' indices in the Base64 alphabet, 64   *)
(* standing for the padding '='.  The allocator and the BIO constructors   *)
(* serve every request here.                                               *)

B64Bytes == {0, 85, 170, 255}
B64Pad == 64

B64Inputs == UNION {[1..n -> B64Bytes] : n \in 0..MaxB64Len}

(* The Base64 BIO writing size() bytes, BIO_FLAGS_BASE64_NO_NL: three      *)
(* bytes make four characters, a last group of one or two bytes is padded. *)
RECURSIVE Base64Encode(_)
Base64Encode(s) ==
    IF Len(s) = 0 THEN <<>>
    ELSE IF Len(s) = 1
    THEN <<s[1] \div 4, (s[1] % 4) * 16, B64Pad, B64Pad>>
    ELSE IF Len(s) = 2
    THEN <<s[1] \div 4, (s[1] % 4) * 16 + s[2] \div 16, (s[2] % 16) * 4, B64Pad>>
    ELSE <<s[1] \div 4, (s[1] % 4) * 16 + s[2] \div 16,
           (s[2] % 16) * 4 + s[3] \div 64, s[3] % 64>>
         \o Base64Encode(SubSeq(s, 4, Len(s)))

(* The Base64 BIO read to the end of the text. *)
RECURSIVE Base64Decode(_)
Base64Decode(t) ==
    IF Len(t) < 4 THEN <<>>
    ELSE (IF t[3] = B64Pad
          THEN <<t[1] * 4 + t[2] \div 16>>
          ELSE IF t[4] = B64Pad
          THEN <<t[1] * 4 + t[2] \div 16, (t[2] % 16) * 16 + t[3] \div 4>>
          ELSE <<t[1] * 4 + t[2] \div 16, (t[2] % 16) * 16 + t[3] \div 4,
                 (t[3] % 4) * 64 + t[4]>>)
         \o Base64Decode(SubSeq(t, 5, Len(t)))

InitB64 ==
    /\ harness = "base64"
    /\ InitOrchestrator
    /\ PoolInit /\ SingleInit /\ MemInit
    /\ \E s \in B64Inputs : b64 = [B64Idle EXCEPT !.stage = "input", !.input = s]

(* Buffer(data, size) of the input bytes: SecureBuffer<uint8_t>(size)      *)
(* throws for size 0.                                                      *)
B64Construct ==
    /\ b64.stage = "input"
    /\ b64' = IF AcquireOutcome(Len(b64.input), 1, TRUE) # NoExc
              THEN [b64 EXCEPT !.stage = "failed",
                               !.exc = AcquireOutcome(Len(b64.input), 1, TRUE)]
              ELSE [b64 EXCEPT !.stage = "buffer"]
    /\ UNCHANGED <<pool, single, mem, harness, passedChecks, mutex, monMutex, entMutex,
                   securityLevelMaintained, sideChannelDetected, entropyLevel,
                   sigUsers, kemUsers, th>>

(* std::string toBase64() const *)
B64Encode ==
    /\ b64.stage = "buffer"
    /\ b64' = [b64 EXCEPT !.stage = "encoded", !.text = Base64Encode(b64.input)]
    /\ UNCHANGED <<pool, single, mem, harness, passedChecks, mutex, monMutex, entMutex,
                   securityLevelMaintained, sideChannelDetected, entropyLevel,
                   sigUsers, kemUsers, th>>

(* static Buffer fromBase64(const std::string &): BIO_read gives the       *)
(* decoded bytes, return Buffer(buffer.data(), length).                    *)
B64Decode ==
    /\ b64.stage = "encoded"
    /\ LET bytes == Base64Decode(b64.text)
       IN  b64' = IF AcquireOutcome(Len(bytes), 1, TRUE) # NoExc
                  THEN [b64 EXCEPT !.stage = "failed",
                                   !.exc = AcquireOutcome(Len(bytes), 1, TRUE)]
                  ELSE [b64 EXCEPT !.stage = "decoded", !.output = bytes]
    /\ UNCHANGED <<pool, single, mem, harness, passedChecks, mutex, monMutex, entMutex,
                   securityLevelMaintained, sideChannelDetected, entropyLevel,
                   sigUsers, kemUsers, th>>

NextB64 == B64Construct \/ B64Encode \/ B64Decode

SpecB64 == InitB64 /\ [][NextB64]_vars

-----------------------------------------------------------------------------
(* Specifications *)

Step(t) ==
    \/ Call(t)
    \/ Lock(t)
    \/ Validate(t)
    \/ ValidateRead(t)
    \/ Work(t)
    \/ GetBytes(t)
    \/ GetBytesLocked(t)
    \/ ProviderCall(t)
    \/ ProviderReturn(t)
    \/ Log(t)
    \/ LogWrite(t)
    \/ Unlock(t)
    \/ Random(t)
    \/ RandomReturn(t)
    \/ HealthQuality(t)
    \/ HealthSide(t)
    \/ HealthSideRead(t)
    \/ HealthReturn(t)

Next == \E t \in Threads : Step(t)

(* Concurrent callers of the instance. *)
Spec == Init /\ [][Next]_vars

(* One caller, every input. *)
SpecSequential == InitSequential /\ [][Next]_vars

(* The two monitor flags are only ever written by initialize(): nothing in *)
(* the sources clears securityLevelMaintained or sets sideChannelDetected. *)
(* They are the hook a detector is meant to drive.  PolicyHook is such a   *)
(* detector, storing to the two atomics while no operation is in flight.   *)
PolicyHook ==
    /\ \A t \in Threads : th[t].pc = "idle"
    /\ securityLevelMaintained' \in BOOLEAN
    /\ sideChannelDetected' \in BOOLEAN
    /\ <<securityLevelMaintained', sideChannelDetected'>>
           # <<securityLevelMaintained, sideChannelDetected>>
    /\ UNCHANGED <<standalone, harness, passedChecks, mutex, monMutex, entMutex, entropyLevel, sigUsers,
                   kemUsers, th>>

NextHook == Next \/ PolicyHook

(* One caller, every input, with a detector driving the monitor's flags. *)
SpecHook == InitSequential /\ [][NextHook]_vars

(* Scheduling: a thread inside an operation keeps running, and a thread   *)
(* blocked on a mutex gets it if it is free again and again.  Whether an   *)
(* idle thread calls anything is up to the caller.                         *)
Progress(t) ==
    \/ Lock(t) \/ Validate(t) \/ ValidateRead(t) \/ Work(t) \/ GetBytes(t)
    \/ GetBytesLocked(t) \/ ProviderCall(t) \/ ProviderReturn(t) \/ Log(t)
    \/ LogWrite(t) \/ Unlock(t) \/ Random(t) \/ RandomReturn(t)
    \/ HealthQuality(t) \/ HealthSide(t) \/ HealthSideRead(t) \/ HealthReturn(t)

Fairness == \A t \in Threads : SF_vars(Progress(t))

SpecFair == Spec /\ Fairness

-----------------------------------------------------------------------------
(* Properties *)

(* The thread runs the body of a public operation: it has been called and  *)
(* is not merely blocked in the lock_guard of a call made by the caller.   *)
InBody(t) == th[t].pc # "idle" /\ (th[t].pc # "lock" \/ th[t].hc # "none")

(* The thread runs the body of one of the six locking operations. *)
InLockedBody(t) == th[t].op \in LockingOps /\ th[t].pc \notin {"idle", "lock"}

(* The thread is about to hand the outcome res of operation op to whoever  *)
(* called it.                                                              *)
AtResult(t) == th[t].pc \in {"unlock", "random_ret"}

VerifyRecord(text) == [operation |-> "Verify", error |-> text]

C2_Serialized ==
    /\ Cardinality(sigUsers) <= 1
    /\ Cardinality(kemUsers) <= 1
    /\ \A t \in sigUsers \cup kemUsers : mutex = t /\ th[t].pc = "provider_ret"
    /\ \A t \in Threads :
          (th[t].op = "sign" /\ th[t].pc = "unlock" /\ th[t].res.kind = "error")
             => th[t].res.exc \in
                   {QuantumError("Signing failed"),
                    QuantumError("Security level compromised"),
                    MemoryError("Secure memory allocation failed")}

C2_ProviderCallsSerialized ==
    /\ []C2_Serialized
    /\ \A t \in Threads :
          (th[t].op = "sign" /\ th[t].pc = "lock")
             ~> (th[t].op = "sign" /\ th[t].pc = "unlock" /\ mutex = t)

C2_Witness ==
    \E t, u \in Threads :
        /\ t \in sigUsers /\ th[t].op = "sign"
        /\ th[u].pc = "lock" /\ th[u].op = "sign"

(* C3: with the level maintained verify ends in a boolean: false without a *)
(* provider call and with a logged length mismatch when the signature has  *)
(* not the context's length, otherwise true exactly when the provider      *)
(* reported success, and false with a logged verification failure when it  *)
(* did not.                                                                *)
C3_VerifyNegativeIsFalse ==
    \A t \in Threads :
        (th[t].op = "verify" /\ th[t].pc = "unlock" /\ securityLevelMaintained)
          => /\ th[t].res.kind = "bool"
             /\ IF th[t].arg.sig.len # length_signature
                THEN /\ ~th[t].res.ok
                     /\ ~th[t].called
                     /\ th[t].logged = VerifyRecord("Signature length mismatch")
                ELSE /\ th[t].called
                     /\ th[t].res.ok <=> (th[t].status = "success")
                     /\ th[t].logged =
                           IF th[t].res.ok THEN NoRecord
                           ELSE VerifyRecord("Signature verification failed")

C3_Witness ==
    \E t \in Threads :
        /\ th[t].op = "verify" /\ th[t].pc = "unlock"
        /\ th[t].arg.sig.len = length_signature + 1
        /\ th[t].arg.sig.msg = th[t].arg.msg /\ th[t].arg.sig.key = th[t].arg.key
        /\ th[t].res = ResBool(FALSE)

(* C4, as claimed: an exception inside verify is logged and reaches the    *)
(* caller as an error of kind VerificationError.                           *)
C4_VerificationErrorKind ==
    \A t \in Threads :
        (th[t].op = "verify" /\ th[t].pc = "unlock" /\ th[t].res.kind = "error")
          => /\ th[t].logged.operation = "Verify"
             /\ th[t].res.exc.type = "VerificationError"

(* C4, amended: an exception inside verify is logged under "Verify" with   *)
(* its text and reaches the caller unchanged, as the QuantumError          *)
(* "Security level compromised" that every locking operation raises when   *)
(* the level is not maintained; no provider call was made.                 *)
C4_VerifyRethrowsOriginal ==
    \A t \in Threads :
        /\ (th[t].op = "verify" /\ th[t].pc = "unlock" /\ th[t].res.kind = "error")
              => /\ th[t].logged = VerifyRecord(th[t].res.exc.what)
                 /\ th[t].res.exc = QuantumError("Security level compromised")
                 /\ ~th[t].called
        /\ (th[t].op \in LockingOps /\ th[t].pc = "unlock"
                /\ ~securityLevelMaintained)
              => th[t].res = ResError(QuantumError("Security level compromised"))

C4_Witness ==
    \E t \in Threads :
        /\ th[t].op = "verify" /\ th[t].pc = "unlock"
        /\ th[t].res.kind = "error"
        /\ th[t].logged.operation = "Verify"

(* The signatures sign(m, private key k) can return: the provider reports  *)
(* any length from 1 to the context's signature length.                    *)
SignOutputs(m, k) == {[msg |-> m, key |-> k, len |-> n] : n \in 1..length_signature}

(* C5, as claimed: verify(m, sign(m, sk), pk) is true for every message,   *)
(* every generated key pair and every length the provider may report.      *)
C5_SignVerifyRoundTrip ==
    \A t \in Threads :
        (/\ th[t].op = "verify" /\ th[t].pc = "unlock"
         /\ th[t].arg.sig \in SignOutputs(th[t].arg.msg, th[t].arg.key))
          => th[t].res = ResBool(TRUE)

(* C6, as claimed: with the level not maintained each of the seven         *)
(* operations fails with the security error, having called no provider and *)
(* drawn no random bytes.                                                  *)
C6_LevelCheckedFirst ==
    \A t \in Threads :
        (AtResult(t) /\ ~securityLevelMaintained)
          => /\ th[t].res = ResError(QuantumError("Security level compromised"))
             /\ ~th[t].called
             /\ ~th[t].drew

(* C7, as claimed: an operation that hands an error to its caller has      *)
(* logged a failure record carrying that error first.                      *)
C7_FailureLoggedBeforeRaise ==
    \A t \in Threads :
        (AtResult(t) /\ th[t].res.kind = "error")
          => /\ th[t].logged.operation # ""
             /\ th[t].logged.error = th[t].res.exc.what

(* The error kinds the specification gives to the operations. *)
ClaimedKind(o) ==
    CASE o \in {"generateDilithiumKeyPair", "generateKyberKeyPair"} -> "KeyGenerationError"
      [] o = "sign" -> "SigningError"
      [] o = "kyberEncapsulate" -> "EncapsulationError"
      [] o = "kyberDecapsulate" -> "DecapsulationError"
      [] OTHER -> "EntropyError"

FailureTexts ==
    [generateDilithiumKeyPair |-> "Dilithium key generation failed",
     generateKyberKeyPair |-> "Kyber key generation failed",
     sign |-> "Signing failed",
     kyberEncapsulate |-> "Kyber encapsulation failed",
     kyberDecapsulate |-> "Kyber decapsulation failed",
     generateSecureRandom |-> "Failed to generate secure random bytes"]

C9_LockReleasedOnExit ==
    /\ mutex \in Threads \cup {NoThread}
    /\ \A t \in Threads : (mutex = t) <=> InLockedBody(t)

C9_Witness ==
    \E t, u \in Threads :
        /\ th[t].pc = "hc_ret"
        /\ th[t].logged.operation = "Dilithium Key Generation"
        /\ mutex = NoThread
        /\ th[u].pc = "lock"

(* The order in which a thread takes the three mutexes: blocked on the     *)
(* orchestrator mutex it holds none of the three; the monitor's and the    *)
(* pool's mutex are held only for the one monitor or pool call, never      *)
(* together, and the pool's only inside the orchestrator's.                *)
LockOrder ==
    \A t \in Threads :
        /\ th[t].pc = "lock" => (mutex # t /\ monMutex # t /\ entMutex # t)
        /\ monMutex = t =>
              /\ th[t].pc \in {"validate_read", "log_write", "hc_side_read"}
              /\ entMutex # t
        /\ entMutex = t => (th[t].pc = "getBytes_locked" /\ mutex = t)

(* C10: the lock order holds in every state and every operation a thread   *)
(* has entered completes.                                                  *)
C10_NoDeadlock ==
    /\ []LockOrder
    /\ \A t \in Threads : (th[t].pc # "idle") ~> (th[t].pc = "idle")

C10_Witness ==
    \E t, u \in Threads :
        /\ th[t].hc = "sign" /\ th[t].pc = "lock"
        /\ mutex = u /\ monMutex = u

-----------------------------------------------------------------------------
(* EntropyPool *)

(* The bytes a getBytes call still in flight has already added to the      *)
(* counter: its RAND_bytes succeeded and it is about to return them.       *)
Added(t) ==
    IF th[t].pc = "pool_ret" /\ th[t].res = ResBytes THEN th[t].arg.len ELSE 0

RECURSIVE SumAdded(_)
SumAdded(S) ==
    IF S = {} THEN 0
    ELSE LET t == CHOOSE u \in S : TRUE IN Added(t) + SumAdded(S \ {t})

(* The bytes drawn so far: by the draws that returned and by those about   *)
(* to return.                                                              *)
BytesDrawn == pool.returned + SumAdded(Threads)

C12_CounterIsSumOfDraws ==
    /\ [](entropyLevel = BytesDrawn)
    /\ [][\A t \in Threads :
            th'[t] # th[t] =>
              /\ entropyLevel' \in {entropyLevel, entropyLevel + th[t].arg.len}
              /\ (th[t].pc = "pool_add") => entropyLevel' = entropyLevel + th[t].arg.len
              /\ (th'[t].pc = "pool_ret" /\ th'[t].res.kind = "error")
                    => entropyLevel' = entropyLevel]_vars

C12_Witness ==
    /\ entropyLevel = ENTROPY_DRAW + MIN_ENTROPY_LEVEL
    /\ \E t, u \in Threads :
         /\ th[t].pc = "pool_ret" /\ th[t].res = ResBytes
         /\ th[t].arg.len = ENTROPY_DRAW
         /\ th[u].pc = "pool_lock"
    /\ pool.returned = MIN_ENTROPY_LEVEL
    /\ pool.calls = MaxPoolDraws

(* C13, as claimed: a draw made while the provider reports its entropy     *)
(* source unhealthy ends in an EntropyError.                               *)
C13_UnhealthyDrawFails ==
    \A t \in Threads :
        (th[t].op = "getBytes" /\ th[t].pc = "pool_ret" /\ ~pool.healthy)
          => /\ th[t].res.kind = "error"
             /\ th[t].res.exc.type = "EntropyError"

-----------------------------------------------------------------------------
(* healthCheck *)

(* The thread is inside healthCheck: in its own statements or in one of    *)
(* the operations it calls.                                                *)
InHealthCheck(t) == th[t].op = "healthCheck" \/ th[t].hc # "none"

(* C14: a healthCheck ends only by returning a boolean; it returns false   *)
(* when hasGoodQuality() is false, without calling anything, and when any  *)
(* operation it calls ends in an exception, the "Insufficient entropy      *)
(* available" of a RAND_status() that reports unhealthy included; it       *)
(* returns true only from the side-channel step with the flag false, which *)
(* it reaches only from a verify that returned true for the signature that *)
(* sign made of the drawn message with the generated key, all of it after  *)
(* the gate was found healthy.                                             *)
C14_HealthCheckSwallows ==
    [][\A t \in Threads :
         th'[t] # th[t] =>
           /\ (InHealthCheck(t) /\ th'[t].pc = "idle")
                 => (th[t].pc = "hc_ret" /\ th[t].res.kind = "bool")
           /\ (th[t].pc = "hc_quality" /\ ~hasGoodQuality)
                 => (th'[t].pc = "hc_ret" /\ th'[t].res = ResBool(FALSE))
           /\ (th[t].hc # "none" /\ AtResult(t) /\ th[t].res.kind = "error")
                 => (th'[t].pc = "hc_ret" /\ th'[t].res = ResBool(FALSE))
           /\ (th'[t].pc = "hc_ret" /\ th'[t].res.ok)
                 => /\ th[t].pc = "hc_side_read"
                    /\ ~sideChannelDetected
                    /\ hasGoodQuality
           /\ th'[t].pc = "hc_side"
                 => /\ th[t].hc = "verify" /\ th[t].res = ResBool(TRUE)
                    /\ th[t].arg.msg = th[t].msg /\ th[t].arg.key = th[t].key
                    /\ th[t].arg.sig.msg = th[t].msg
                    /\ th[t].arg.sig.key = th[t].key
           /\ (th'[t].hc = "verify" /\ th[t].hc # "verify")
                 => (th[t].hc = "sign" /\ th[t].res.kind = "signature")
           /\ (th'[t].hc = "sign" /\ th[t].hc # "sign")
                 => (th[t].hc = "random" /\ th[t].res.kind = "buffer")
           /\ (th'[t].hc = "random" /\ th[t].hc # "random")
                 => (th[t].hc = "keygen" /\ th[t].res.kind = "keypair")
           /\ (th'[t].hc = "keygen" /\ th[t].hc # "keygen")
                 => (th[t].pc = "hc_quality" /\ hasGoodQuality)]_vars

C14_Witness ==
    \E t \in Threads :
        /\ th[t].pc = "hc_ret"
        /\ th[t].res = ResBool(FALSE)
        /\ th[t].logged = [operation |-> "Dilithium Key Generation",
                           error |-> "Insufficient entropy available"]
        /\ hasGoodQuality
        /\ securityLevelMaintained
        /\ ~sideChannelDetected

-----------------------------------------------------------------------------
(* getInstance *)

(* C15, as claimed: one orchestrator is constructed, every call that       *)
(* returns returns it, and it is configured by the parameters of the first *)
(* call.                                                                   *)
C15_FirstCallConfigures ==
    /\ single.built <= 1
    /\ \A t \in Threads :
          (single.call[t].pc = "ret" /\ single.call[t].ret = "instance")
             => (single.guard = "done" /\ single.built = 1)
    /\ single.guard = "done" => single.config = single.first

(* What the code does keep: one orchestrator, the same for every call,     *)
(* built from no call's parameters.                                        *)
OneInstanceBuiltIn ==
    /\ single.built <= 1
    /\ \A t \in Threads :
          (single.call[t].pc = "ret" /\ single.call[t].ret = "instance")
             => (single.guard = "done" /\ single.built = 1)
    /\ single.guard = "done" => single.config = BuiltIn

-----------------------------------------------------------------------------
(* SecureBuffer *)

AllZero(bytes) == \A i \in 1..Len(bytes) : bytes[i] = 0

Owners(r) == {b \in Slots : mem.bufs[b].state = "live" /\ mem.bufs[b].data_ = r}

(* C16: constructing a buffer of n elements throws MemoryError and leaves  *)
(* no buffer when n = 0 ("Zero-sized buffer requested"), when n times      *)
(* sizeof(T) does not fit in size_t, or when the allocator refused;        *)
(* otherwise the buffer exists with size n over a region of n elements,    *)
(* holding the given bytes when built from raw bytes.                      *)
C16_AcquireContract ==
    LET l == mem.last
    IN  l.op \in {"acquire", "from_data"} =>
          /\ l.exc \in {NoExc, MemoryError("Zero-sized buffer requested"),
                        MemoryError("Requested buffer size is too large"),
                        MemoryError("Secure memory allocation failed")}
          /\ (l.n = 0) <=> (l.exc = MemoryError("Zero-sized buffer requested"))
          /\ (l.n > 0 /\ l.n * mem.elem > SIZE_MAX)
                <=> (l.exc = MemoryError("Requested buffer size is too large"))
          /\ l.exc # NoExc =>
                /\ mem.bufs[l.dst] = NoBuf
                /\ \A r \in Regions :
                      mem.heap[r].state = "allocated" => Owners(r) # {}
          /\ l.exc = NoExc =>
                /\ mem.bufs[l.dst].state = "live"
                /\ mem.bufs[l.dst].size_ = l.n
                /\ Len(BytesOf(mem.bufs[l.dst])) = l.n
                /\ l.op = "from_data" => BytesOf(mem.bufs[l.dst]) = l.bytes

C16_Witness ==
    /\ mem.last.op = "from_data"
    /\ mem.last.n = 0
    /\ mem.last.exc = MemoryError("Zero-sized buffer requested")
    /\ \E b \in Slots : mem.bufs[b].size_ = MaxLen

(* C17: a freed region holds only zeros, and after clear() the buffer has  *)
(* the size and the region it had, the region is still allocated and holds *)
(* only zeros.                                                             *)
C17_ZeroedBeforeFree ==
    /\ \A r \in Regions :
          mem.heap[r].state = "freed" => AllZero(mem.heap[r].bytes)
    /\ mem.last.op = "clear" =>
          /\ mem.bufs[mem.last.dst] = mem.last.was
          /\ mem.last.was.data_ # 0 =>
                /\ mem.heap[mem.last.was.data_].state = "allocated"
                /\ Len(mem.heap[mem.last.was.data_].bytes) = mem.last.was.size_
                /\ AllZero(mem.heap[mem.last.was.data_].bytes)

C17_Witness ==
    /\ mem.last.op = "destroy"
    /\ mem.last.was.size_ = MaxLen
    /\ \A i \in 1..MaxLen : mem.last.old[i] # 0
    /\ mem.heap[mem.last.was.data_].state = "freed"

-----------------------------------------------------------------------------
(* Base64 *)

(* C19, as claimed: for every byte sequence, the empty one included, the   *)
(* transcoding ends with a decoded buffer holding the bytes it started     *)
(* from.                                                                   *)
C19_Base64RoundTrip ==
    b64.stage \in {"decoded", "failed"}
       => (b64.stage = "decoded" /\ b64.output = b64.input)

(* What the code does keep: the round trip of every sequence that is not   *)
(* empty.                                                                  *)
RoundTripNonEmpty ==
    (b64.stage \in {"decoded", "failed"} /\ Len(b64.input) > 0)
       => (b64.stage = "decoded" /\ b64.output = b64.input)

-----------------------------------------------------------------------------
(* Entropy accounting of the orchestrator *)

(* The operations that never go to the EntropyPool. *)
NonDrawingOps ==
    {"generateSecureRandom", "generateKyberKeyPair", "sign", "verify",
     "kyberEncapsulate", "kyberDecapsulate"}

(* C20: no step of generateSecureRandom, generateKyberKeyPair, sign,       *)
(* verify, kyberEncapsulate or kyberDecapsulate, on a path that succeeds   *)
(* or on one that fails, changes the pool's counter or the value of        *)
(* hasGoodQuality().                                                       *)
C20_OnlySignatureKeygenDraws ==
    [][\A t \in Threads :
         (th'[t] # th[t] /\ th[t].op \in NonDrawingOps)
            => /\ entropyLevel' = entropyLevel
               /\ hasGoodQuality' <=> hasGoodQuality]_vars

C20_Witness ==
    \E t \in Threads :
        /\ th[t].op = "generateKyberKeyPair"
        /\ th[t].pc = "unlock"
        /\ th[t].res.kind = "keypair"
        /\ th[t].drew
        /\ entropyLevel = ENTROPY_DRAW

-----------------------------------------------------------------------------
(* SecurityMonitor::logFailure *)

BrokenSink(k) == ~k.cerr /\ k.file # "appended"

(* C21: logFailure returns to its caller whatever became of the record,    *)
(* also when neither std::cerr nor the log file took it: the step that     *)
(* writes the record releases the monitor's mutex, leaves the two flags    *)
(* and the orchestrator's mutex alone, and hands the caller back what it   *)
(* was about to deliver, so that an error path goes on to leave the        *)
(* operation with the original exception.                                  *)
C21_LogFailureNeverRaises ==
    [][\A t \in Threads :
         (th[t].pc \in {"log", "log_write"} /\ th'[t] # th[t])
            => /\ th'[t].res = th[t].res
               /\ securityLevelMaintained' = securityLevelMaintained
               /\ sideChannelDetected' = sideChannelDetected
               /\ mutex' = mutex
               /\ th[t].pc = "log" => (th'[t].pc = "log_write" /\ monMutex' = t)
               /\ th[t].pc = "log_write"
                     => /\ th'[t].pc = "unlock"
                        /\ monMutex' = NoThread
                        /\ th'[t].logged = [operation |-> LogName(th[t].op),
                                            error |-> FailureText(th[t])]]_vars

C21_Witness ==
    \E t \in Threads :
        /\ th[t].pc = "unlock" /\ th[t].op = "sign"
        /\ th[t].res = ResError(QuantumError("Signing failed"))
        /\ BrokenSink(th[t].sink)
        /\ th[t].sink.file = "unopened"
        /\ monMutex = NoThread
        /\ sideChannelDetected

-----------------------------------------------------------------------------
(* The monitor's flags under the public operations alone *)

(* C22: with only the public operations acting, failing ones included, the *)
(* level is maintained and no side channel is detected in every state; no  *)
(* operation ends with "Security level compromised", the level check       *)
(* always lets the operation go on, and the side-channel step of           *)
(* healthCheck always ends in true.                                        *)
C22_FlagsKeepDefaults ==
    /\ [](/\ securityLevelMaintained
          /\ ~sideChannelDetected
          /\ \A t \in Threads :
                th[t].res.exc # QuantumError("Security level compromised"))
    /\ [][\A t \in Threads :
            /\ (th[t].pc = "validate_read" /\ th'[t] # th[t])
                  => th'[t].pc = "work"
            /\ (th[t].pc = "hc_side_read" /\ th'[t] # th[t])
                  => (th'[t].pc = "hc_ret" /\ th'[t].res = ResBool(TRUE))]_vars

C22_Witness ==
    \E t \in Threads :
        /\ th[t].pc = "hc_ret"
        /\ th[t].res = ResBool(TRUE)
        /\ securityLevelMaintained
        /\ ~sideChannelDetected
        /\ entropyLevel = MIN_ENTROPY_LEVEL + ENTROPY_DRAW

-----------------------------------------------------------------------------
(* The counter of the orchestrator's EntropyPool and the calls behind it *)

DrawThreshold == MIN_ENTROPY_LEVEL \div ENTROPY_DRAW

(* C23, as claimed: the counter counts the generateDilithiumKeyPair calls  *)
(* that got past validateSecurityLevel() and monitorEntropy(): with no     *)
(* call in flight it is 32 times their number.                             *)
C23_CounterCountsPassedCalls ==
    (\A t \in Threads : th[t].pc = "idle")
        => entropyLevel = ENTROPY_DRAW * passedChecks

(* C23: the counter is 32 times the number of generateDilithiumKeyPair     *)
(* calls whose getBytes(32) succeeded: it starts at 0, moves only by +32   *)
(* in the step where such a call's RAND_bytes succeeds, whatever the       *)
(* provider's key generation does afterwards, and so never exceeds 32      *)
(* times the calls that passed the two checks.  A healthCheck started with *)
(* fewer than 8 passed calls returns false, and one that finds the pool    *)
(* below the threshold returns false without calling the provider or       *)
(* changing the counter.                                                   *)
C23_CounterCountsSucceededDraws ==
    /\ [](/\ entropyLevel <= ENTROPY_DRAW * passedChecks
          /\ entropyLevel % ENTROPY_DRAW = 0
          /\ \A t \in Threads :
                (th[t].pc = "hc_ret" /\ th[t].res = ResBool(TRUE))
                    => passedChecks > DrawThreshold)
    /\ [][/\ entropyLevel' # entropyLevel
             => \E t \in Threads :
                   /\ th[t].pc = "getBytes_locked"
                   /\ th[t].op = "generateDilithiumKeyPair"
                   /\ th'[t].pc = "provider"
          /\ \A t \in Threads :
                /\ (th[t].pc = "getBytes_locked" /\ th'[t].pc = "provider")
                      => entropyLevel' = entropyLevel + ENTROPY_DRAW
                /\ (/\ th[t].pc = "hc_quality"
                    /\ th'[t] # th[t]
                    /\ (passedChecks < DrawThreshold \/ ~hasGoodQuality))
                      => /\ th'[t].pc = "hc_ret"
                         /\ th'[t].res = ResBool(FALSE)
                         /\ ~th'[t].called
                         /\ entropyLevel' = entropyLevel
                         /\ passedChecks' = passedChecks
                         /\ sigUsers' = sigUsers
                         /\ mutex' = mutex]_vars

(* healthCheck answers false with 8 calls past the checks, one of which    *)
(* failed before its draw was counted.                                     *)
C23_Witness ==
    \E t \in Threads :
        /\ th[t].pc = "hc_ret"
        /\ th[t].res = ResBool(FALSE)
        /\ passedChecks = DrawThreshold
        /\ entropyLevel = MIN_ENTROPY_LEVEL - ENTROPY_DRAW

-----------------------------------------------------------------------------
(* Lengths beyond the range of RAND_bytes' int parameter *)

(* C24: a getBytes(n) or generateSecureRandom(n) that returns successfully *)
(* returns n bytes all of which RAND_bytes wrote, and getBytes adds to the *)
(* counter the number of bytes RAND_bytes wrote.                           *)
C24_ReturnedBytesAreProviderBytes ==
    /\ [](\A t \in Threads :
            /\ (th[t].pc = "pool_ret" /\ th[t].res = ResBytes)
                  => th[t].filled = th[t].arg.len
            /\ (/\ th[t].pc = "random_ret"
                /\ th[t].op = "generateSecureRandom"
                /\ th[t].res.kind = "buffer")
                  => th[t].filled = th[t].arg.len)
    /\ [][\A t \in Threads :
            (th[t].pc = "pool_add" /\ th'[t] # th[t])
               => entropyLevel' = entropyLevel + th[t].filled]_vars

====
